---- MODULE Spec2Model ----
(***************************************************************************)
(* Segment point cover (SegmentProcessor, FileReader, ProcessingPipeline)  *)
(* and triangle minimum path sum (minimum_total, run_test_suite).          *)
(***************************************************************************)
EXTENDS Integers, Sequences, FiniteSets, TLC

(***************************************************************************)
(* Bounds of the model.                                                    *)
(***************************************************************************)
\* longest interval sequence handed to the solver
MaxLen == 3
\* interval endpoints: both sides of the value -1 the sweep starts from
Values == -2 .. 1

\* most rows of a well-formed triangle
MaxRows == 3
\* entries of a well-formed triangle
TriValues == {-1, 0, 1}
\* most rows, and longest row, of a triangle of arbitrary shape
MaxRagged == 2
\* entries of a triangle of arbitrary shape
RaggedValues == {0, 1}
\* what a read past the end of a row may yield
Garbage == {-7, 7}

\* most lines after the count line of the input file
MaxLines == 3
\* the integers on the data lines of the input file
FileValues == {-1, 0, 1}

\* int current_covering_point = -1;
NoPoint == -1

None == [kind |-> "none"]

Min2(a, b) == IF b < a THEN b ELSE a

Range(s) == {s[k] : k \in 1..Len(s)}

VARIABLES
    segments,                \* the argument of find_minimum_points_to_cover_all_segments
    spc,                     \* the solver's position
    sorted_segments,         \* its locals
    selected_points,
    current_covering_point,
    segments_processed,
    soutcome,                \* what the call ended in: a result or an exception
    sort_memo,               \* the order std::sort gave the inputs sorted so far
    triangle,                \* the argument of minimum_total
    tpc,                     \* its position
    dp,                      \* its locals
    path,
    current_col,
    row,                     \* the loop variable i of its loops
    toutcome,                \* what the call ended in
    file,                    \* the input file: whether it exists, and its lines
    rpc,                     \* the position of read_segments_from_file
    pos,                     \* lines of the file consumed by getline
    total_segments_count,    \* its locals
    lines_read,
    segments_read,
    lines_skipped,
    segments_data,
    routcome,                \* what the read ended in
    ppc,                     \* the position of ProcessingPipeline::execute
    presult,                 \* what execute returned
    call_no,                 \* the caller: which call this is,
    first_input,             \* what the first one was given,
    first_outcome            \* and what it ended in

solverVars == <<segments, spc, sorted_segments, selected_points,
                current_covering_point, segments_processed, soutcome, sort_memo>>
triVars == <<triangle, tpc, dp, path, current_col, row, toutcome>>
callerVars == <<call_no, first_input, first_outcome>>
readerVars == <<file, rpc, pos, total_segments_count, lines_read, segments_read,
                lines_skipped, segments_data, routcome>>
pipeVars == <<ppc, presult>>
vars == <<solverVars, triVars, readerVars, pipeVars, callerVars>>

(***************************************************************************)
(* Inputs.                                                                 *)
(***************************************************************************)
Pairs == Values \X Values

SeqsUpTo(S, n) == UNION {[1..k -> S] : k \in 0..n}

IsValid(seg) == seg[1] <= seg[2]

AllValid(segs) == \A k \in 1..Len(segs) : IsValid(segs[k])

(***************************************************************************)
(* SegmentProcessor::find_minimum_points_to_cover_all_segments             *)
(***************************************************************************)
\* the validation loop with the comparison start >= end
RECURSIVE ValidateFrom_geq(_, _)
ValidateFrom_geq(segs, i) ==
    IF i >= Len(segs) THEN None
    ELSE IF segs[i + 1][1] >= segs[i + 1][2]
         THEN [kind |-> "threw", what |-> "invalid_argument", index |-> i,
               first |-> segs[i + 1][1], second |-> segs[i + 1][2]]
         ELSE ValidateFrom_geq(segs, i + 1)

\* the validation loop from index i (0-based): the first start > end throws
RECURSIVE ValidateFrom(_, _)
ValidateFrom(segs, i) ==
    IF i >= Len(segs) THEN None
    ELSE IF segs[i + 1][1] > segs[i + 1][2]
         THEN [kind |-> "threw", what |-> "invalid_argument", index |-> i,
               first |-> segs[i + 1][1], second |-> segs[i + 1][2]]
         ELSE ValidateFrom(segs, i + 1)

\* a comparator on the left endpoints
SortLess_first(a, b) == a[1] < b[1]

\* the comparator of the sort: a.second < b.second
SortLess(a, b) == a[2] < b[2]

\* every arrangement std::sort may leave: no element is followed by a smaller
\* one; the order of equivalent elements is unspecified
SortedArrangements(segs) ==
    LET n == Len(segs)
        ok(p) == \A k \in 1..(n - 1) : ~SortLess(segs[p[k + 1]], segs[p[k]])
    IN  {[k \in 1..n |-> segs[p[k]]] : p \in {q \in Permutations(1..n) : ok(q)}}

\* selected_points kept from one call to the next
SweepLocals_kept ==
    [points |-> selected_points, point |-> NoPoint, processed |-> 0]

\* the values the locals are given before the sweep
SweepLocals ==
    [points |-> <<>>, point |-> NoPoint, processed |-> 0]

\* if (current_covering_point == -1 || current_covering_point < segment_start)
NeedsNewPoint(point, segment_start) ==
    point = NoPoint \/ point < segment_start

\* entry: the size check and the validation loop
Enter ==
    /\ spc = "called"
    /\ IF Len(segments) = 0
       THEN /\ spc' = "done"
            /\ soutcome' = [kind |-> "returned", count |-> 0, points |-> <<>>]
       ELSE LET e == ValidateFrom(segments, 0)
            IN  IF e.kind = "threw"
                THEN spc' = "done" /\ soutcome' = e
                ELSE spc' = "sort" /\ soutcome' = soutcome
    /\ UNCHANGED <<segments, sorted_segments, selected_points,
                   current_covering_point, segments_processed, sort_memo>>
    /\ UNCHANGED <<triVars, readerVars, pipeVars, callerVars>>

\* the sorted copy, then the locals of the sweep
Sort ==
    /\ spc = "sort"
    /\ \E s \in SortedArrangements(segments) :
         /\ \A m \in sort_memo : m[1] = segments => m[2] = s
         /\ sorted_segments' = s
         /\ sort_memo' = sort_memo \cup {<<segments, s>>}
    /\ selected_points' = SweepLocals.points
    /\ current_covering_point' = SweepLocals.point
    /\ segments_processed' = SweepLocals.processed
    /\ spc' = "sweep"
    /\ UNCHANGED <<segments, soutcome>>
    /\ UNCHANGED <<triVars, readerVars, pipeVars, callerVars>>

\* one iteration of the range-for over sorted_segments
SweepStep ==
    /\ spc = "sweep"
    /\ segments_processed < Len(sorted_segments)
    /\ LET segment == sorted_segments[segments_processed + 1]
       IN  IF NeedsNewPoint(current_covering_point, segment[1])
           THEN /\ current_covering_point' = segment[2]
                /\ selected_points' = Append(selected_points, segment[2])
           ELSE UNCHANGED <<current_covering_point, selected_points>>
    /\ segments_processed' = segments_processed + 1
    /\ UNCHANGED <<segments, spc, sorted_segments, soutcome, sort_memo>>
    /\ UNCHANGED <<triVars, readerVars, pipeVars, callerVars>>

\* return {total_points_required, selected_points};
Return ==
    /\ spc = "sweep"
    /\ segments_processed = Len(sorted_segments)
    /\ spc' = "done"
    /\ soutcome' = [kind |-> "returned", count |-> Len(selected_points),
                    points |-> selected_points]
    /\ UNCHANGED <<segments, sorted_segments, selected_points,
                   current_covering_point, segments_processed, sort_memo>>
    /\ UNCHANGED <<triVars, readerVars, pipeVars, callerVars>>


(***************************************************************************)
(* minimum_total                                                           *)
(***************************************************************************)
\* the triangles with exactly n rows, row i (0-based) of i + 1 entries
RECURSIVE Triangles(_)
Triangles(n) ==
    IF n = 0 THEN {<<>>}
    ELSE {Append(t, r) : t \in Triangles(n - 1), r \in [1..n -> TriValues]}

WellFormed(tri) == \A i \in 1..Len(tri) : Len(tri[i]) = i

\* vectors of vectors of any shape
RaggedTriangles ==
    SeqsUpTo(SeqsUpTo(RaggedValues, MaxRagged), MaxRagged)

\* the empty-triangle test with the first row's test left out
IsDegenerate_norows(tri) == Len(tri) = 0

\* if (triangle.empty() || triangle[0].empty())
IsDegenerate(tri) == Len(tri) = 0 \/ Len(tri[1]) = 0

\* rows[i][j] (0-based) by operator[]: past the end of the row the read is
\* undefined and yields g
Cell(rows, i, j, g) ==
    IF j < Len(rows[i + 1]) THEN rows[i + 1][j + 1] ELSE g

\* the values reads past the end may yield, one per read; a single choice
\* where no read is past the end
GarbageFns(k, outside) ==
    IF outside THEN [0..k -> Garbage] ELSE {[s \in 0..k |-> 0]}

\* dp(n), each row resized to its triangle row, the last row copied
InitialDP(tri) ==
    LET n == Len(tri)
    IN  [i \in 1..n |-> [j \in 1..Len(tri[i]) |->
            IF i = n THEN tri[i][j] ELSE 0]]

\* whether filling row i reads dp[i+1] past its end
FillReadsOutside(tri, d, i) ==
    Len(tri[i + 1]) > 0 /\ Len(d[i + 2]) < Len(tri[i + 1]) + 1

\* the recurrence with max for min
FillCell_max(entry, below, right) ==
    entry + (IF below < right THEN right ELSE below)

\* dp[i][j] = triangle[i][j] + std::min(dp[i+1][j], dp[i+1][j+1]);
FillCell(entry, below, right) == entry + Min2(below, right)

\* row i of dp after the inner loop over j
FilledRow(tri, d, i, gf) ==
    [j1 \in 1..Len(tri[i + 1]) |->
        FillCell(tri[i + 1][j1], Cell(d, i + 1, j1 - 1, gf[j1 - 1]),
                 Cell(d, i + 1, j1, gf[j1]))]

\* the reconstruction moving right when the two cells below are equal
StayInColumn_strict(tri, d, i, c, gf) ==
    LET expected_value == Cell(d, i - 1, c, gf[0]) - Cell(tri, i - 1, c, gf[1])
    IN  /\ Cell(d, i, c, gf[2]) = expected_value
        /\ Cell(d, i, c + 1, gf[3]) # expected_value

\* the reconstruction always keeping its column
StayInColumn_always(tri, d, i, c, gf) == TRUE

\* expected_value = dp[i-1][c] - triangle[i-1][c]; dp[i][c] == expected_value
StayInColumn(tri, d, i, c, gf) ==
    LET expected_value == Cell(d, i - 1, c, gf[0]) - Cell(tri, i - 1, c, gf[1])
    IN  Cell(d, i, c, gf[2]) = expected_value

\* the column the reconstruction moves to in row i
NextColumn(tri, d, i, c, gf) ==
    IF StayInColumn(tri, d, i, c, gf) THEN c ELSE c + 1

\* whether the reconstruction's step for row i reads past the end of a row
WalkReadsOutside(tri, d, i, c) ==
    \/ c >= Len(tri[i])
    \/ c >= Len(tri[i + 1])
    \/ NextColumn(tri, d, i, c, [s \in 0..3 |-> 0]) >= Len(tri[i + 1])

\* entry: the empty test, the dp table and its last row
TriEnter ==
    /\ tpc = "called"
    /\ IF IsDegenerate(triangle)
       THEN /\ tpc' = "done"
            /\ toutcome' = [kind |-> "returned", total |-> 0, path |-> <<>>]
            /\ UNCHANGED <<dp, row>>
       ELSE /\ tpc' = "fill"
            /\ dp' = InitialDP(triangle)
            /\ row' = Len(triangle) - 2
            /\ UNCHANGED toutcome
    /\ UNCHANGED <<triangle, path, current_col>>
    /\ UNCHANGED <<solverVars, readerVars, pipeVars, callerVars>>

\* one iteration of for (int i = n-2; i >= 0; --i)
FillRow ==
    /\ tpc = "fill"
    /\ row >= 0
    /\ \E gf \in GarbageFns(MaxRagged, FillReadsOutside(triangle, dp, row)) :
         dp' = [dp EXCEPT ![row + 1] = FilledRow(triangle, dp, row, gf)]
    /\ row' = row - 1
    /\ UNCHANGED <<triangle, tpc, path, current_col, toutcome>>
    /\ UNCHANGED <<solverVars, readerVars, pipeVars, callerVars>>

\* path.push_back(triangle[0][current_col]) with current_col = 0
StartPath ==
    /\ tpc = "fill"
    /\ row < 0
    /\ current_col' = 0
    /\ path' = <<triangle[1][1]>>
    /\ row' = 1
    /\ tpc' = "walk"
    /\ UNCHANGED <<triangle, dp, toutcome>>
    /\ UNCHANGED <<solverVars, readerVars, pipeVars, callerVars>>

\* one iteration of for (int i = 1; i < n; ++i)
WalkStep ==
    /\ tpc = "walk"
    /\ row < Len(triangle)
    /\ \E gf \in GarbageFns(3, WalkReadsOutside(triangle, dp, row, current_col)) :
         LET c == NextColumn(triangle, dp, row, current_col, gf)
         IN  /\ current_col' = c
             /\ path' = Append(path, Cell(triangle, row, c, gf[3]))
    /\ row' = row + 1
    /\ UNCHANGED <<triangle, tpc, dp, toutcome>>
    /\ UNCHANGED <<solverVars, readerVars, pipeVars, callerVars>>

\* return {min_sum, path} with min_sum = dp[0][0]
TriReturn ==
    /\ tpc = "walk"
    /\ row >= Len(triangle)
    /\ tpc' = "done"
    /\ toutcome' = [kind |-> "returned", total |-> dp[1][1], path |-> path]
    /\ UNCHANGED <<triangle, dp, path, current_col, row>>
    /\ UNCHANGED <<solverVars, readerVars, pipeVars, callerVars>>

\* a read past the end of a row may also end the process
TriCrash ==
    /\ \/ /\ tpc = "fill"
          /\ row >= 0
          /\ FillReadsOutside(triangle, dp, row)
       \/ /\ tpc = "walk"
          /\ row < Len(triangle)
          /\ WalkReadsOutside(triangle, dp, row, current_col)
    /\ tpc' = "crashed"
    /\ UNCHANGED <<triangle, dp, path, current_col, row, toutcome>>
    /\ UNCHANGED <<solverVars, readerVars, pipeVars, callerVars>>

TriIdle ==
    /\ triangle = <<>>
    /\ tpc = "idle"
    /\ dp = <<>>
    /\ path = <<>>
    /\ current_col = 0
    /\ row = 0
    /\ toutcome = None

TriCalled(inputs) ==
    /\ triangle \in inputs
    /\ tpc = "called"
    /\ dp = <<>>
    /\ path = <<>>
    /\ current_col = 0
    /\ row = 0
    /\ toutcome = None


(***************************************************************************)
(* FileReader::read_segments_from_file                                     *)
(***************************************************************************)
\* a line of the file: empty; two integers; one integer; anything else
EmptyLine == [kind |-> "empty"]
TextLine == [kind |-> "text"]
OneInt(n) == [kind |-> "one", a |-> n]
TwoInts(m, n) == [kind |-> "two", a |-> m, b |-> n]

\* the counts a count line may declare
Declared == -1 .. (MaxLines + 1)

CountLines == {EmptyLine, TextLine} \cup {OneInt(n) : n \in Declared}

DataLines ==
    {EmptyLine, TextLine} \cup {TwoInts(m, n) : m \in FileValues, n \in FileValues}

Files ==
    {[exists |-> FALSE, lines |-> <<>>], [exists |-> TRUE, lines |-> <<>>]}
    \cup {[exists |-> TRUE, lines |-> <<c>> \o d] :
            c \in CountLines, d \in SeqsUpTo(DataLines, MaxLines)}

\* first_ss >> total_segments_count
ParsesCount(line) == line.kind \in {"one", "two"}

\* line_ss >> start >> end
ParsesRecord(line) == line.kind = "two"

\* the record as read, not ordered
Normalize_asread(m, n) == <<m, n>>

\* (std::min(start, end), std::max(start, end))
Normalize(m, n) == <<IF n < m THEN n ELSE m, IF m < n THEN n ELSE m>>

\* the loop body with an empty line counted as a segment read
AfterLine_blankcounts(line, rd) ==
    LET counted == [rd EXCEPT !.lines_read = @ + 1]
    IN  IF line.kind = "empty"
        THEN [counted EXCEPT !.lines_skipped = @ + 1, !.segments_read = @ + 1]
        ELSE IF ~ParsesRecord(line)
        THEN [counted EXCEPT !.threw = TRUE]
        ELSE [counted EXCEPT
                !.segments_data = Append(@, Normalize(line.a, line.b)),
                !.segments_read = @ + 1]

\* the body of the while loop on one line
AfterLine(line, rd) ==
    LET counted == [rd EXCEPT !.lines_read = @ + 1]
    IN  IF line.kind = "empty"
        THEN [counted EXCEPT !.lines_skipped = @ + 1]
        ELSE IF ~ParsesRecord(line)
        THEN [counted EXCEPT !.threw = TRUE]
        ELSE [counted EXCEPT
                !.segments_data = Append(@, Normalize(line.a, line.b)),
                !.segments_read = @ + 1]

\* segments_data.size() != total_segments_count: the int is converted to
\* size_t, so a negative count differs from every size
SizeDiffers(size, total) == total < 0 \/ size # total

ReaderThrew(what) == [kind |-> "threw", what |-> what]

\* std::ifstream file(filename); if (!file.is_open())
Open ==
    /\ rpc = "open"
    /\ IF file.exists
       THEN rpc' = "count" /\ UNCHANGED routcome
       ELSE rpc' = "done" /\ routcome' = ReaderThrew("File not found")
    /\ UNCHANGED <<file, pos, total_segments_count, lines_read, segments_read,
                   lines_skipped, segments_data>>
    /\ UNCHANGED <<solverVars, triVars, pipeVars, callerVars>>

\* the first line and the declared count, then the locals of the loop
ReadCount ==
    /\ rpc = "count"
    /\ IF Len(file.lines) = 0
       THEN /\ rpc' = "done"
            /\ routcome' = ReaderThrew("Empty file")
            /\ UNCHANGED <<pos, total_segments_count>>
       ELSE IF ~ParsesCount(file.lines[1])
       THEN /\ rpc' = "done"
            /\ routcome' = ReaderThrew("Invalid format")
            /\ pos' = 1
            /\ UNCHANGED total_segments_count
       ELSE /\ rpc' = "loop"
            /\ pos' = 1
            /\ total_segments_count' = file.lines[1].a
            /\ UNCHANGED routcome
    /\ lines_read' = 0
    /\ segments_read' = 0
    /\ lines_skipped' = 0
    /\ segments_data' = <<>>
    /\ UNCHANGED file
    /\ UNCHANGED <<solverVars, triVars, pipeVars, callerVars>>

\* the loop body entered with segments_read <= total_segments_count
ReadLine_greedy ==
    /\ rpc = "loop"
    /\ pos < Len(file.lines)
    /\ segments_read <= total_segments_count
    /\ LET rd == AfterLine(file.lines[pos + 1],
                           [lines_read |-> lines_read,
                            segments_read |-> segments_read,
                            lines_skipped |-> lines_skipped,
                            segments_data |-> segments_data,
                            threw |-> FALSE])
       IN  /\ lines_read' = rd.lines_read
           /\ segments_read' = rd.segments_read
           /\ lines_skipped' = rd.lines_skipped
           /\ segments_data' = rd.segments_data
           /\ IF rd.threw
              THEN rpc' = "done" /\ routcome' = ReaderThrew("Invalid segment data")
              ELSE UNCHANGED <<rpc, routcome>>
    /\ pos' = pos + 1
    /\ UNCHANGED <<file, total_segments_count>>
    /\ UNCHANGED <<solverVars, triVars, pipeVars, callerVars>>

\* while (std::getline(file, line) && segments_read < total_segments_count)
\* with its body
ReadLine ==
    /\ rpc = "loop"
    /\ pos < Len(file.lines)
    /\ segments_read < total_segments_count
    /\ LET rd == AfterLine(file.lines[pos + 1],
                           [lines_read |-> lines_read,
                            segments_read |-> segments_read,
                            lines_skipped |-> lines_skipped,
                            segments_data |-> segments_data,
                            threw |-> FALSE])
       IN  /\ lines_read' = rd.lines_read
           /\ segments_read' = rd.segments_read
           /\ lines_skipped' = rd.lines_skipped
           /\ segments_data' = rd.segments_data
           /\ IF rd.threw
              THEN rpc' = "done" /\ routcome' = ReaderThrew("Invalid segment data")
              ELSE UNCHANGED <<rpc, routcome>>
    /\ pos' = pos + 1
    /\ UNCHANGED <<file, total_segments_count>>
    /\ UNCHANGED <<solverVars, triVars, pipeVars, callerVars>>

\* the loop condition failing: getline at the end of the file, or a line
\* taken by getline with the declared count already read
LoopExit ==
    /\ rpc = "loop"
    /\ IF pos < Len(file.lines)
       THEN ~(segments_read < total_segments_count) /\ pos' = pos + 1
       ELSE pos' = pos
    /\ rpc' = "after"
    /\ UNCHANGED <<file, total_segments_count, lines_read, segments_read,
                   lines_skipped, segments_data, routcome>>
    /\ UNCHANGED <<solverVars, triVars, pipeVars, callerVars>>

\* the end-of-file check, the mismatch warning and the return
Finish ==
    /\ rpc = "after"
    /\ rpc' = "done"
    /\ IF segments_read < total_segments_count
       THEN routcome' = ReaderThrew("Unexpected end of file")
       ELSE routcome' = [kind |-> "returned", data |-> segments_data,
                         warned |-> SizeDiffers(Len(segments_data),
                                                total_segments_count)]
    /\ UNCHANGED <<file, pos, total_segments_count, lines_read, segments_read,
                   lines_skipped, segments_data>>
    /\ UNCHANGED <<solverVars, triVars, pipeVars, callerVars>>

(***************************************************************************)
(* ProcessingPipeline::execute                                             *)
(***************************************************************************)
\* segment_processor.find_minimum_points_to_cover_all_segments(segments)
CallSolver ==
    /\ ppc = "reading"
    /\ rpc = "done"
    /\ routcome.kind = "returned"
    /\ ppc' = "solving"
    /\ segments' = routcome.data
    /\ spc' = "called"
    /\ UNCHANGED <<sorted_segments, selected_points, current_covering_point,
                   segments_processed, soutcome, sort_memo, presult>>
    /\ UNCHANGED <<triVars, readerVars, callerVars>>

\* return result;
ExecuteReturn ==
    /\ ppc = "solving"
    /\ spc = "done"
    /\ soutcome.kind = "returned"
    /\ ppc' = "done"
    /\ presult' = [count |-> soutcome.count, points |-> soutcome.points]
    /\ UNCHANGED <<solverVars, triVars, readerVars, callerVars>>

\* catch (const std::exception& e): return {-1, {}};
ExecuteCatch ==
    /\ \/ ppc = "reading" /\ rpc = "done" /\ routcome.kind = "threw"
       \/ ppc = "solving" /\ spc = "done" /\ soutcome.kind = "threw"
    /\ ppc' = "done"
    /\ presult' = [count |-> -1, points |-> <<>>]
    /\ UNCHANGED <<solverVars, triVars, readerVars, callerVars>>

PipeIdle ==
    /\ file = [exists |-> FALSE, lines |-> <<>>]
    /\ rpc = "idle"
    /\ pos = 0
    /\ total_segments_count = 0
    /\ lines_read = 0
    /\ segments_read = 0
    /\ lines_skipped = 0
    /\ segments_data = <<>>
    /\ routcome = None
    /\ ppc = "idle"
    /\ presult = None

(***************************************************************************)
(* A direct call of the solver.                                            *)
(***************************************************************************)
SolverIdle ==
    /\ segments = <<>>
    /\ spc = "idle"
    /\ sorted_segments = <<>>
    /\ selected_points = <<>>
    /\ current_covering_point = NoPoint
    /\ segments_processed = 0
    /\ soutcome = None
    /\ sort_memo = {}

SolverCalled(inputs) ==
    /\ segments \in inputs
    /\ spc = "called"
    /\ sorted_segments = <<>>
    /\ selected_points = <<>>
    /\ current_covering_point = NoPoint
    /\ segments_processed = 0
    /\ soutcome = None
    /\ sort_memo = {}

FirstCall ==
    /\ call_no = 1
    /\ first_input = <<>>
    /\ first_outcome = None

Init ==
    /\ SolverCalled(SeqsUpTo(Pairs, MaxLen))
    /\ TriIdle
    /\ PipeIdle
    /\ FirstCall

Next ==
    \/ Enter
    \/ Sort
    \/ SweepStep
    \/ Return

Spec == Init /\ [][Next]_vars

(***************************************************************************)
(* A call of minimum_total.                                                *)
(***************************************************************************)
InitTriangle ==
    /\ SolverIdle
    /\ TriCalled(UNION {Triangles(n) : n \in 0..MaxRows} \cup RaggedTriangles)
    /\ PipeIdle
    /\ FirstCall

NextTriangle ==
    \/ TriEnter
    \/ FillRow
    \/ StartPath
    \/ WalkStep
    \/ TriReturn
    \/ TriCrash

SpecTriangle == InitTriangle /\ [][NextTriangle]_vars


(***************************************************************************)
(* Properties of a direct call.                                            *)
(***************************************************************************)
Returned == spc = "done" /\ soutcome.kind = "returned"

Threw == spc = "done" /\ soutcome.kind = "threw"

Covers(points, seg) == \E p \in points : seg[1] <= p /\ p <= seg[2]

\* the size of a smallest set of integer points that hits every interval
MinCoverSize(segs) ==
    LET hits(P) == \A k \in 1..Len(segs) : Covers(P, segs[k])
        sizes == {Cardinality(P) : P \in {Q \in SUBSET Values : hits(Q)}}
    IN  CHOOSE m \in sizes : \A x \in sizes : m <= x

\* C1: every interval of a valid input contains at least one returned point,
\* and the returned count is the number of returned points.
C1_Coverage ==
    (Returned /\ AllValid(segments)) =>
        /\ \A k \in 1..Len(segments) : Covers(Range(soutcome.points), segments[k])
        /\ soutcome.count = Len(soutcome.points)

\* a call on three intervals with a negative endpoint returned two points
C1_Witness ==
    /\ Returned
    /\ Len(segments) = 3
    /\ \E k \in 1..3 : segments[k][1] < 0
    /\ soutcome.count = 2

\* C2: the returned count is the size of a smallest set of points hitting
\* every interval of a valid input.
C2_Minimality ==
    (Returned /\ AllValid(segments)) =>
        soutcome.count = MinCoverSize(segments)

\* the lowest index (0-based) of an interval with start > end
LowestInvalid(segs) ==
    CHOOSE i \in 0..(Len(segs) - 1) :
        /\ ~IsValid(segs[i + 1])
        /\ \A j \in 0..(i - 1) : IsValid(segs[j + 1])

\* C5: with an interval whose start > end in the input, the call never reaches
\* the sort or the sweep, selects no point, and ends in the validation error
\* naming the lowest offending index and that interval's two values.
C5_FailFast ==
    (Len(segments) > 0 /\ ~AllValid(segments)) =>
        /\ spc \in {"called", "done"}
        /\ sorted_segments = <<>>
        /\ selected_points = <<>>
        /\ sort_memo = {}
        /\ spc = "done" =>
             LET i == LowestInvalid(segments)
             IN  soutcome = [kind |-> "threw", what |-> "invalid_argument",
                             index |-> i, first |-> segments[i + 1][1],
                             second |-> segments[i + 1][2]]

\* the call threw on an input whose offending interval is the last of three,
\* after two valid ones
C5_Witness ==
    /\ Threw
    /\ Len(segments) = 3
    /\ IsValid(segments[1]) /\ IsValid(segments[2])
    /\ soutcome.index = 2

(***************************************************************************)
(* Properties of a call of minimum_total.                                  *)
(***************************************************************************)
\* no row, or an empty first row
IsDegenerateInput == triangle = <<>> \/ triangle[1] = <<>>

TriReturned == tpc = "done" /\ toutcome.kind = "returned"

\* the column sequences (0-based) of the top-to-bottom paths over n rows
RECURSIVE ColumnPaths(_)
ColumnPaths(n) ==
    IF n = 1 THEN {<<0>>}
    ELSE UNION {{Append(p, c) : c \in {p[n - 1], p[n - 1] + 1}} :
                p \in ColumnPaths(n - 1)}

EntriesOn(tri, cols) == [i \in 1..Len(cols) |-> tri[i][cols[i] + 1]]

RECURSIVE SumOf(_)
SumOf(s) == IF Len(s) = 0 THEN 0 ELSE s[1] + SumOf(Tail(s))

\* the least sum of the entries on a top-to-bottom path
MinPathSum(tri) ==
    LET sums == {SumOf(EntriesOn(tri, cols)) : cols \in ColumnPaths(Len(tri))}
    IN  CHOOSE m \in sums : \A x \in sums : m <= x

\* whether several paths reach the least sum
HasTie(tri) ==
    \E cols \in ColumnPaths(Len(tri)), other \in ColumnPaths(Len(tri)) :
        /\ cols # other
        /\ SumOf(EntriesOn(tri, cols)) = MinPathSum(tri)
        /\ SumOf(EntriesOn(tri, other)) = MinPathSum(tri)

\* C3: for a well-formed triangle with at least one row the returned total is
\* the minimum, over all top-to-bottom paths, of the sum of the path's entries.
C3_MinimumTotal ==
    (TriReturned /\ WellFormed(triangle) /\ Len(triangle) >= 1) =>
        toutcome.total = MinPathSum(triangle)

\* a three-row triangle whose minimum is not reached down the left edge nor
\* down the right edge
C3_Witness ==
    /\ TriReturned
    /\ WellFormed(triangle)
    /\ Len(triangle) = 3
    /\ toutcome.total < SumOf(EntriesOn(triangle, <<0, 0, 0>>))
    /\ toutcome.total < SumOf(EntriesOn(triangle, <<0, 1, 2>>))

\* C4: for a well-formed triangle with n >= 1 rows the returned path has n
\* entries, starts at triangle[0][0], follows a column sequence that keeps its
\* column or moves one to the right per row, and sums to the returned total.
C4_PathRealisesTotal ==
    (TriReturned /\ WellFormed(triangle) /\ Len(triangle) >= 1) =>
        /\ Len(toutcome.path) = Len(triangle)
        /\ toutcome.path[1] = triangle[1][1]
        /\ \E cols \in ColumnPaths(Len(triangle)) :
             /\ toutcome.path = EntriesOn(triangle, cols)
             /\ cols[Len(triangle)] = current_col
        /\ SumOf(toutcome.path) = toutcome.total

\* a three-row triangle with several minimum paths, whose returned path moved
\* to the right at least once
C4_Witness ==
    /\ TriReturned
    /\ WellFormed(triangle)
    /\ Len(triangle) = 3
    /\ HasTie(triangle)
    /\ current_col >= 1

\* C9: the call returns total 0 with an empty path exactly when the triangle
\* has no row or an empty first row; with a non-empty first row the table is
\* filled, the reconstruction runs, and a call that returns returns a path with
\* one entry per row.
C9_Degenerate ==
    /\ (tpc # "called" /\ IsDegenerateInput) =>
           /\ tpc = "done"
           /\ toutcome = [kind |-> "returned", total |-> 0, path |-> <<>>]
           /\ dp = <<>> /\ path = <<>>
    /\ (tpc # "called" /\ ~IsDegenerateInput) =>
           /\ tpc \in {"fill", "walk", "done", "crashed"}
           /\ Len(dp) = Len(triangle)
           /\ tpc = "done" =>
                /\ toutcome.kind = "returned"
                /\ Len(toutcome.path) = Len(triangle)
                /\ toutcome.path # <<>>

\* the call returned at once on a triangle with an empty first row above a
\* non-empty second row
C9_Witness ==
    /\ TriReturned
    /\ Len(triangle) = 2
    /\ triangle[1] = <<>>
    /\ triangle[2] # <<>>
    /\ toutcome.path = <<>>

\* a call on a triangle with a non-empty first row and a short second row
\* returned a path
C9_WitnessRagged ==
    /\ TriReturned
    /\ Len(triangle) = 2
    /\ Len(triangle[1]) = 1
    /\ Len(triangle[2]) < 2
    /\ Len(toutcome.path) = 2

(***************************************************************************)
(* A run of ProcessingPipeline::execute on an input file.                  *)
(***************************************************************************)
InitPipeline ==
    /\ SolverIdle
    /\ TriIdle
    /\ FirstCall
    /\ file \in Files
    /\ rpc = "open"
    /\ pos = 0
    /\ total_segments_count = 0
    /\ lines_read = 0
    /\ segments_read = 0
    /\ lines_skipped = 0
    /\ segments_data = <<>>
    /\ routcome = None
    /\ ppc = "reading"
    /\ presult = None

NextPipeline ==
    \/ Open
    \/ ReadCount
    \/ ReadLine
    \/ LoopExit
    \/ Finish
    \/ CallSolver
    \/ Enter
    \/ Sort
    \/ SweepStep
    \/ Return
    \/ ExecuteReturn
    \/ ExecuteCatch

SpecPipeline == InitPipeline /\ [][NextPipeline]_vars

(***************************************************************************)
(* Properties of the read and of execute.                                  *)
(***************************************************************************)
\* the lines after the count line
DataOf(f) == SubSeq(f.lines, 2, Len(f.lines))

OfKind(lines, kind) == SelectSeq(lines, LAMBDA l : l.kind = kind)

\* a count line declaring an integer, then only empty lines and records
CleanFile ==
    /\ file.exists
    /\ Len(file.lines) >= 1
    /\ file.lines[1].kind = "one"
    /\ \A k \in 2..Len(file.lines) : file.lines[k].kind \in {"empty", "two"}

\* the data lines the loop body has handled
Handled == SubSeq(file.lines, 2, lines_read + 1)

\* C6: with a count line declaring N followed only by empty lines and valid
\* records, fewer than N of them records, the read ends in the premature
\* end-of-file error; every empty line is skipped and only records count.
C6_PrematureEnd ==
    (CleanFile /\ Len(OfKind(DataOf(file), "two")) < file.lines[1].a) =>
        /\ rpc \in {"loop", "after", "done"} =>
             /\ segments_read = Len(OfKind(Handled, "two"))
             /\ lines_skipped = Len(OfKind(Handled, "empty"))
             /\ Len(segments_data) = segments_read
        /\ rpc \in {"after", "done"} => lines_read = Len(DataOf(file))
        /\ rpc = "done" => routcome = ReaderThrew("Unexpected end of file")
        /\ ppc = "done" => presult = [count |-> -1, points |-> <<>>]

\* the read failed at the end of a file declaring 2 with one record between
\* two empty lines
C6_Witness ==
    /\ CleanFile
    /\ file.lines[1].a = 2
    /\ Len(DataOf(file)) = 3
    /\ file.lines[2].kind = "empty"
    /\ file.lines[3].kind = "two"
    /\ file.lines[4].kind = "empty"
    /\ rpc = "done"
    /\ routcome = ReaderThrew("Unexpected end of file")
    /\ lines_skipped = 2

\* C7: the read returns, in file order, (min(a,b), max(a,b)) of each record it
\* handled; the solver never throws its validation error inside execute, and
\* execute returns count -1 only when the read failed.
C7_NormalizedUpstream ==
    /\ (rpc = "done" /\ routcome.kind = "returned") =>
          LET recs == OfKind(Handled, "two")
          IN  /\ Len(routcome.data) = Len(recs)
              /\ \A k \in 1..Len(recs) :
                   /\ routcome.data[k][1] = Min2(recs[k].a, recs[k].b)
                   /\ routcome.data[k][2] = -Min2(-recs[k].a, -recs[k].b)
    /\ soutcome.kind # "threw"
    /\ (ppc = "done" /\ presult.count = -1) =>
          (rpc = "done" /\ routcome.kind = "threw" /\ spc = "idle")
    /\ (ppc = "done" /\ rpc = "done" /\ routcome.kind = "returned") =>
          presult.count >= 0

\* execute returned two points for a file with a record whose first integer
\* is the larger one
C7_Witness ==
    /\ ppc = "done"
    /\ presult.count = 2
    /\ \E k \in 2..Len(file.lines) :
         file.lines[k].kind = "two" /\ file.lines[k].a > file.lines[k].b


(***************************************************************************)
(* Two calls in a row on the same input: run_test_suite computes the       *)
(* expected result of a generated triangle with one call of minimum_total  *)
(* and compares it with a second call on the same triangle; the segment    *)
(* solver is called again on the same intervals.                           *)
(***************************************************************************)
CallAgain ==
    /\ call_no = 1
    /\ spc = "done"
    /\ call_no' = 2
    /\ first_input' = segments
    /\ first_outcome' = soutcome
    /\ spc' = "called"
    /\ soutcome' = None
    /\ UNCHANGED <<segments, sorted_segments, selected_points,
                   current_covering_point, segments_processed, sort_memo>>
    /\ UNCHANGED <<triVars, readerVars, pipeVars>>

TriCallAgain ==
    /\ call_no = 1
    /\ tpc = "done"
    /\ call_no' = 2
    /\ first_input' = triangle
    /\ first_outcome' = toutcome
    /\ tpc' = "called"
    /\ toutcome' = None
    /\ UNCHANGED <<triangle, dp, path, current_col, row>>
    /\ UNCHANGED <<solverVars, readerVars, pipeVars>>

InitTwice ==
    /\ FirstCall
    /\ PipeIdle
    /\ \/ SolverCalled(SeqsUpTo(Pairs, MaxLen)) /\ TriIdle
       \/ /\ SolverIdle
          /\ TriCalled(UNION {Triangles(n) : n \in 0..MaxRows} \cup {<<<<>>>>})

NextTwice ==
    \/ Enter
    \/ Sort
    \/ SweepStep
    \/ Return
    \/ CallAgain
    \/ TriEnter
    \/ FillRow
    \/ StartPath
    \/ WalkStep
    \/ TriReturn
    \/ TriCallAgain

SpecTwice == InitTwice /\ [][NextTwice]_vars

(***************************************************************************)
(* Two calls of the segment solver on two orderings of the same intervals. *)
(***************************************************************************)
Reorderings(segs) ==
    {[k \in 1..Len(segs) |-> segs[p[k]]] : p \in Permutations(1..Len(segs))}

CallReordered ==
    /\ call_no = 1
    /\ spc = "done"
    /\ call_no' = 2
    /\ first_input' = segments
    /\ first_outcome' = soutcome
    /\ segments' \in Reorderings(segments)
    /\ spc' = "called"
    /\ soutcome' = None
    /\ UNCHANGED <<sorted_segments, selected_points, current_covering_point,
                   segments_processed, sort_memo>>
    /\ UNCHANGED <<triVars, readerVars, pipeVars>>

NextReordered ==
    \/ Enter
    \/ Sort
    \/ SweepStep
    \/ Return
    \/ CallReordered

SpecReordered == Init /\ [][NextReordered]_vars

\* C8: a second call on the same input ends as the first did: the same total
\* and path, the same count and points in the same order (or the same
\* validation error).
C8_Determinism ==
    /\ (call_no = 2 /\ spc = "done" /\ segments = first_input) =>
           soutcome = first_outcome
    /\ (call_no = 2 /\ tpc = "done" /\ triangle = first_input) =>
           toutcome = first_outcome

\* a second call on the same three valid intervals, two of them with the same
\* right endpoint, returned two points
C8_Witness ==
    /\ call_no = 2
    /\ Returned
    /\ segments = first_input
    /\ Len(segments) = 3
    /\ segments[1] # segments[2]
    /\ segments[1][2] = segments[2][2]
    /\ soutcome.count = 2

\* a second call on the same three-row triangle returned
C8_WitnessTriangle ==
    /\ call_no = 2
    /\ TriReturned
    /\ Len(triangle) = 3
    /\ Len(toutcome.path) = 3

\* C10: two calls on two orderings of the same valid intervals return the same
\* count and the same points, whatever order the sort leaves intervals with
\* equal right endpoints in.
C10_OrderIndependence ==
    (call_no = 2 /\ Returned /\ AllValid(segments)) =>
        soutcome = first_outcome

(***************************************************************************)
(* Properties of the sweep.                                                *)
(***************************************************************************)
\* the greedy sweep with an explicit "no point chosen yet" state (pts empty):
\* a point, the interval's end, is appended exactly when no point is chosen
\* yet or the last chosen point is strictly less than the interval's start
RECURSIVE ReferenceSweepFrom(_, _, _)
ReferenceSweepFrom(segs, k, pts) ==
    IF k > Len(segs) THEN pts
    ELSE IF pts = <<>> \/ pts[Len(pts)] < segs[k][1]
         THEN ReferenceSweepFrom(segs, k + 1, Append(pts, segs[k][2]))
         ELSE ReferenceSweepFrom(segs, k + 1, pts)

ReferenceSweep(segs) == ReferenceSweepFrom(segs, 1, <<>>)

\* C11: after each iteration the selected points are those of the reference
\* greedy sweep over the intervals swept so far, and the returned points are
\* those of the reference sweep over the sorted intervals.
C11_SweepRule ==
    (spc \in {"sweep", "done"} /\ AllValid(segments)) =>
        /\ selected_points =
              ReferenceSweep(SubSeq(sorted_segments, 1, segments_processed))
        /\ Returned => soutcome.points = ReferenceSweep(sorted_segments)

StrictlyIncreasing(s) == \A k \in 1..(Len(s) - 1) : s[k] < s[k + 1]

\* C13: the returned points are strictly increasing, so the count is the
\* number of distinct points, and it is at most the number of distinct right
\* endpoints of the input.
C13_StrictlyIncreasing ==
    (Returned /\ AllValid(segments)) =>
        /\ StrictlyIncreasing(soutcome.points)
        /\ soutcome.count = Cardinality(Range(soutcome.points))
        /\ soutcome.count <= Cardinality({segments[k][2] : k \in 1..Len(segments)})

(***************************************************************************)
(* Properties of the reconstruction.                                       *)
(***************************************************************************)
LexLess(a, b) ==
    \E k \in 1..Len(a) : a[k] < b[k] /\ \A j \in 1..(k - 1) : a[j] = b[j]

\* the lexicographically least column sequence among the minimum-sum paths
LexLeastColumns(tri) ==
    LET least == MinPathSum(tri)
        best == {cols \in ColumnPaths(Len(tri)) :
                    SumOf(EntriesOn(tri, cols)) = least}
    IN  CHOOSE cols \in best : \A other \in best : ~LexLess(other, cols)

\* the column of row i (0-based) after column c of row i - 1: c when dp[i][c]
\* is the minimum of dp[i][c] and dp[i][c+1], c + 1 when dp[i][c+1] is
\* strictly smaller
RuleColumn(d, i, c) ==
    IF d[i + 1][c + 2] < d[i + 1][c + 1] THEN c + 1 ELSE c

\* C12: at every row the reconstruction follows the tie-break rule, and the
\* path built so far runs along the lexicographically least column sequence
\* among the minimum-sum paths of a well-formed triangle.
C12_TieBreak ==
    (tpc \in {"walk", "done"} /\ WellFormed(triangle) /\ Len(triangle) >= 1) =>
        LET k == Len(path)
            best == LexLeastColumns(triangle)
        IN  /\ current_col = best[k]
            /\ path = EntriesOn(triangle, SubSeq(best, 1, k))
            /\ k >= 2 => current_col = RuleColumn(dp, k - 1, best[k - 1])
            /\ TriReturned => toutcome.path = EntriesOn(triangle, best)

\* the triangle of all-equal entries of the edge tests returned the path down
\* column 0
C12_Witness ==
    /\ TriReturned
    /\ triangle = <<<<1>>, <<1, 1>>, <<1, 1, 1>>>>
    /\ toutcome.path = <<1, 1, 1>>
    /\ current_col = 0

\* a returned path that kept its column on a tie and moved right where the
\* right cell was strictly smaller
C12_WitnessMixed ==
    /\ TriReturned
    /\ WellFormed(triangle)
    /\ Len(triangle) = 3
    /\ dp[2][1] = dp[2][2]
    /\ dp[3][2] < dp[3][1]
    /\ current_col = 1

(***************************************************************************)
(* Properties of a read that returns.                                      *)
(***************************************************************************)
ReadReturned == rpc = "done" /\ routcome.kind = "returned"

\* C14: a read that returns without an error returns exactly the declared
\* number N of intervals, whatever integer N is, without the count-mismatch
\* warning, and the loop body handles no line after the N-th record.
C14_CountMatches ==
    ReadReturned =>
        /\ Len(routcome.data) = file.lines[1].a
        /\ ~routcome.warned
        /\ lines_read > 0 => Handled[lines_read].kind = "two"

\* C14 as amended: for N >= 0 a read that returns returns exactly N intervals
\* without the warning; for N < 0 it returns no interval and emits the
\* warning; in both cases the loop body handles no line after the N-th record
\* (getline takes at most one further line, which is neither parsed nor
\* counted).
C14_CountMatchesAmended ==
    ReadReturned =>
        LET N == file.lines[1].a
        IN  /\ N >= 0 => (Len(routcome.data) = N /\ ~routcome.warned)
            /\ N < 0 => (routcome.data = <<>> /\ routcome.warned)
            /\ Len(OfKind(Handled, "two")) = Len(routcome.data)
            /\ lines_read > 0 => Handled[lines_read].kind = "two"
            /\ N <= 0 => lines_read = 0
            /\ pos - (lines_read + 1) \in {0, 1}

\* a file declaring 1 with a record followed by a line that is no record was
\* read without an error
C14_Witness ==
    /\ ReadReturned
    /\ file.lines[1].a = 1
    /\ Len(file.lines) = 3
    /\ file.lines[2].kind = "two"
    /\ file.lines[3].kind = "text"
    /\ Len(routcome.data) = 1
    /\ lines_read = 1
    /\ pos = 3

\* a file declaring -1 was read without an error, with the warning
C14_WitnessNegative ==
    /\ ReadReturned
    /\ file.lines[1].a = -1
    /\ Len(file.lines) = 2
    /\ routcome.warned

====
